---- MODULE Spec2Model ----
(***************************************************************************)
(* A model of the YouTube scraping relay: the request router of main.py    *)
(* (POST /scrape_youtube) and the scraping component YoutubeScraper of     *)
(* youtube_scraper.py.  One request is followed from the router through    *)
(* the construction of the scraper and the loop of fetch_data over the     *)
(* configured sources, one upstream call per step.  The upstream API is    *)
(* the environment: every call answers with one of a bounded set of        *)
(* responses, and the same call always gets the same answer (an unchanged  *)
(* upstream dataset).  fetch_data may be run again on the same instance.   *)
(*                                                                         *)
(* Python values: a missing string key or an empty string is "", a missing *)
(* duration is None, a text is a sequence of one-character strings where   *)
(* its content matters (durations).  Record fields that the code copies    *)
(* verbatim from the upstream item (titles, counts, thumbnails, authors,   *)
(* timestamps) are left out of the records; the fields kept are the ones   *)
(* the code derives or selects.                                            *)
(***************************************************************************)
EXTENDS Integers, Sequences, FiniteSets, TLC

\* ------------------------------------------------------------------ bounds
MaxSources == 2
MaxLimit == 1
MaxComments == 1
ScenarioLimit == 250
ScenarioPage == 100
MaxRuns == 2
MaxRerunSources == 1

\* ------------------------------------------------------- program constants
DefaultSearchMax == 5
DefaultCommentsMax == 10

VARIABLES
    config,        \* platform_config of the request: has_key, sources
    searchMemo,    \* upstream dataset: answer of search().list per arguments
    videosMemo,    \* upstream dataset: answer of videos().list per arguments
    commentsMemo,  \* upstream dataset: answer of commentThreads().list per arguments
    pc,            \* position of the request: request, built, loop, details, returned, responded
    build_called,  \* whether build('youtube', 'v3', ...) was invoked
    results,       \* self.results
    origin,        \* for each entry of self.results, the index of the source that appended it
    idx,           \* index of the source the loop of fetch_data is at
    video_ids,     \* video_ids between the search call and the details call
    calls,         \* the upstream calls of the current run of fetch_data, in order
    runs,          \* number of runs of fetch_data started on this instance
    prev,          \* what the previous run of fetch_data returned
    response       \* what the router answered

vars == <<config, searchMemo, videosMemo, commentsMemo, pc, build_called,
          results, origin, idx, video_ids, calls, runs, prev, response>>

\* ------------------------------------------------------------ Python values
None == << >>

Min(a, b) == IF a < b THEN a ELSE b

\* The prefixes of s, the empty one and s itself included.
Prefixes(s) == { SubSeq(s, 1, n) : n \in 0..Len(s) }

\* ------------------------------------------------------------ the upstream
Iso4m13s == <<"P", "T", "4", "M", "1", "3", "S">>
Malformed == <<"4", ":", "1", "3">>

\* contentDetails.duration as the upstream may send it for a video: a well-formed
\* ISO-8601 duration for v1; a malformed one or none at all for v2.
DurationsOf(id) == IF id = "v1" THEN {Iso4m13s} ELSE {Malformed, None}

ContentOf(status) == IF status = 403 THEN "forbidden" ELSE "notFound"

OkResponse(items, next) ==
    [kind |-> "ok", status |-> 200, content |-> "", items |-> items, next |-> next]

\* A call that fails: an HttpError with one of statuses, or another exception.
Failures(statuses) ==
    { [kind |-> "http", status |-> s, content |-> ContentOf(s), items |-> << >>, next |-> FALSE]
        : s \in statuses }
    \cup { [kind |-> "exc", status |-> 0, content |-> "timed out", items |-> << >>, next |-> FALSE] }

\* The upstream's ranking of what it holds: one item that is no video, and two videos.
Ranking ==
    << [kind |-> "youtube#channel", videoId |-> ""],
       [kind |-> "youtube#video", videoId |-> "v1"],
       [kind |-> "youtube#video", videoId |-> "v2"] >>

\* A search answers with the top of the ranking, as many items as the upstream
\* likes whatever maxResults asked for, or fails.
SearchResponses == { OkResponse(items, FALSE) : items \in Prefixes(Ranking) } \cup Failures({403})

\* The detail items for ids, each with any duration.
RECURSIVE DetailItems(_)
DetailItems(ids) ==
    IF ids = << >> THEN { << >> }
    ELSE { <<[id |-> Head(ids), duration |-> d]>> \o t :
             d \in DurationsOf(Head(ids)), t \in DetailItems(Tail(ids)) }

\* A details call answers with items for the first ids asked for, all of them or
\* fewer (a video may be gone), or fails.
VideosResponses(ids) ==
    { OkResponse(items, FALSE) : items \in UNION { DetailItems(part) : part \in Prefixes(ids) } }
    \cup Failures({404})

CommentCounts == (0..MaxComments) \cup {ScenarioPage}

CommentItems(n) == [i \in 1..n |-> [id |-> i]]

CommentsResponses ==
    { OkResponse(CommentItems(n), nx) : n \in CommentCounts, nx \in BOOLEAN }
    \cup Failures({403, 404})

\* The answers the upstream may give to a call: the one it gave before, or any.
Upstream(memo, key, all) == IF key \in DOMAIN memo THEN {memo[key]} ELSE all

Remember(memo, key, r) == IF key \in DOMAIN memo THEN memo ELSE (key :> r) @@ memo

\* --------------------------------------------------------------- the request
Limits == 1..MaxLimit

Sources ==
    { [type |-> "search_videos", query |-> q, video_id |-> "", has_max |-> FALSE, max_results |-> 0]
        : q \in {"", "cats"} }
    \cup { [type |-> "search_videos", query |-> "cats", video_id |-> "", has_max |-> TRUE, max_results |-> m]
        : m \in Limits }
    \cup { [type |-> "video_comments", query |-> "", video_id |-> v, has_max |-> FALSE, max_results |-> 0]
        : v \in {"", "abc123"} }
    \cup { [type |-> "video_comments", query |-> "", video_id |-> "abc123", has_max |-> TRUE, max_results |-> m]
        : m \in Limits \cup {ScenarioLimit} }
    \cup { [type |-> "channel_videos", query |-> "", video_id |-> "", has_max |-> FALSE, max_results |-> 0] }

Configs ==
    { [has_key |-> k, sources |-> s] :
        k \in BOOLEAN, s \in UNION { [1..n -> Sources] : n \in 0..MaxSources } }

\* --------------------------------------------------------------- exceptions
NoExc == [type |-> "none", status |-> 0, content |-> ""]

HttpError(status, content) == [type |-> "HttpError", status |-> status, content |-> content]

OtherError(content) == [type |-> "Exception", status |-> 0, content |-> content]

ValueError(content) == [type |-> "ValueError", status |-> 0, content |-> content]

Raised(r) == IF r.kind = "http" THEN HttpError(r.status, r.content) ELSE OtherError(r.content)


\* ------------------------------------------------------------------ main.py
\* except ValueError / except HttpError / except Exception of the endpoint.
RouterError(exc) ==
    IF exc.type = "ValueError"
    THEN [status_code |-> 400, status |-> "error", detail |-> <<exc.content>>, data |-> << >>]
    ELSE IF exc.type = "HttpError"
    THEN [status_code |-> exc.status, status |-> "error",
          detail |-> <<"YouTube API error: ",
                       IF exc.content # "" THEN exc.content ELSE "No further details.">>,
          data |-> << >>]
    ELSE [status_code |-> 500, status |-> "error",
          detail |-> <<"Error during YouTube scraping: ", exc.content>>, data |-> << >>]

\* return {"status": "success", "platform": "YouTube", "data": data}
RouterSuccess(data) ==
    [status_code |-> 200, status |-> "success", detail |-> << >>, data |-> data]

NoResponse == [status_code |-> 0, status |-> "pending", detail |-> << >>, data |-> << >>]

\* ------------------------------------------------------- youtube_scraper.py
HasApiKeyUnchecked(cfg) == TRUE

\* "youtube_api_key" in config
HasApiKey(cfg) == cfg.has_key

MissingKeyError == ValueError("YouTube API key ('youtube_api_key') not found in config.")

\* What build() may do: return the client, or raise.
BuildOutcomes ==
    {NoExc, OtherError("unknown api"), HttpError(404, ContentOf(404))}

ClearResultsKeeps(old) == old

\* self.results = []
ClearResults(old) == << >>

\* source.get("query") or source.get("video_id", "N/A")
SourceName(source) ==
    IF source.query # "" THEN source.query
    ELSE IF source.video_id # "" THEN source.video_id ELSE "N/A"

ErrorEntryNoStatus(source, exc) ==
    [platform |-> "YouTube", source_name |-> SourceName(source),
     error |-> [text |-> "{e}", status |-> 0, content |-> exc.content],
     signal_batch |-> << >>]

\* The entry the handlers of fetch_data append for a source whose fetch raised.
ErrorEntry(source, exc) ==
    IF exc.type = "HttpError"
    THEN [platform |-> "YouTube", source_name |-> SourceName(source),
          error |-> [text |-> "An HTTP error {status} occurred: {content}",
                     status |-> exc.status, content |-> exc.content],
          signal_batch |-> << >>]
    ELSE [platform |-> "YouTube", source_name |-> SourceName(source),
          error |-> [text |-> "{e}", status |-> 0, content |-> exc.content],
          signal_batch |-> << >>]

FetchDataHandleNoCatch(source, out) == out

\* The try/except of fetch_data around one source: out is what the source's fetch
\* did (entries it appended, exception it raised); the result is what is left after
\* the handlers ran.
FetchDataHandle(source, out) ==
    IF out.raised.type = "none" THEN out
    ELSE [append |-> out.append \o <<ErrorEntry(source, out.raised)>>, raised |-> NoExc]

\* source.get("max_results", 5)
SearchMax(source) == IF source.has_max THEN source.max_results ELSE DefaultSearchMax

\* search().list(q=query, part='id,snippet', maxResults=max_results, type='video')
SearchRequest(source) == [q |-> source.query, maxResults |-> SearchMax(source)]

\* [item['id']['videoId'] for item in items if item['id']['kind'] == 'youtube#video']
VideoIdsOf(items) ==
    LET kept == SelectSeq(items, LAMBDA it : it.kind = "youtube#video")
    IN  [i \in DOMAIN kept |-> kept[i].videoId]

NoVideosFoundIgnored(ids) == FALSE

\* if not video_ids
NoVideosFound(ids) == ids = << >>

VideosRequestFirstOnly(ids) == [id |-> <<Head(ids)>>]

\* videos().list(part='snippet,statistics,contentDetails', id=','.join(video_ids))
VideosRequest(ids) == [id |-> ids]

VideoRecordDropsDuration(item) ==
    [video_id |-> item.id,
     url |-> <<"https://www.youtube.com/watch?v=", item.id>>,
     duration |-> None]

VideoRecord(item) ==
    [video_id |-> item.id,
     url |-> <<"https://www.youtube.com/watch?v=", item.id>>,
     duration |-> item.duration]

SearchBatch(query, items) ==
    [platform |-> "YouTube", source_type |-> "search_videos", source_name |-> query,
     signal_batch |-> [i \in DOMAIN items |-> VideoRecord(items[i])]]

\* _fetch_videos_by_search after the search call answered r.
AfterSearch(source, r) ==
    IF r.kind # "ok"
    THEN [append |-> << >>, raised |-> Raised(r), ids |-> << >>]
    ELSE IF NoVideosFound(VideoIdsOf(r.items))
    THEN [append |-> <<SearchBatch(source.query, << >>)>>, raised |-> NoExc, ids |-> << >>]
    ELSE [append |-> << >>, raised |-> NoExc, ids |-> VideoIdsOf(r.items)]

\* _fetch_videos_by_search after the details call answered r.
AfterVideos(source, r) ==
    IF r.kind # "ok"
    THEN [append |-> << >>, raised |-> Raised(r)]
    ELSE [append |-> <<SearchBatch(source.query, r.items)>>, raised |-> NoExc]

\* source.get("max_results", 10)
CommentsMax(source) == IF source.has_max THEN source.max_results ELSE DefaultCommentsMax

CommentsRequestCapped(source) ==
    [videoId |-> source.video_id, maxResults |-> Min(100, CommentsMax(source)), pageToken |-> ""]

\* commentThreads().list(part='snippet,replies', videoId=video_id,
\*                       maxResults=max_results, textFormat='plainText')
CommentsRequest(source) ==
    [videoId |-> source.video_id, maxResults |-> CommentsMax(source), pageToken |-> ""]

IsCommentsDisabledNever(status) == FALSE

\* e.resp.status == 403
IsCommentsDisabled(status) == status = 403

DisabledEntry(video_id) ==
    [platform |-> "YouTube", source_type |-> "video_comments",
     source_name |-> <<"video_id_", video_id>>, video_id |-> video_id,
     error |-> [text |-> "Comments are disabled for this video.", status |-> 0, content |-> ""],
     signal_batch |-> << >>]

CommentRecord(item) == [comment_id |-> item.id, replies |-> << >>]

CommentsBatchDropsLast(video_id, items) ==
    [platform |-> "YouTube", source_type |-> "video_comments",
     source_name |-> <<"video_id_", video_id>>, video_id |-> video_id,
     signal_batch |-> [i \in 1..(Len(items) - 1) |-> CommentRecord(items[i])]]

CommentsBatch(video_id, items) ==
    [platform |-> "YouTube", source_type |-> "video_comments",
     source_name |-> <<"video_id_", video_id>>, video_id |-> video_id,
     signal_batch |-> [i \in DOMAIN items |-> CommentRecord(items[i])]]

\* _fetch_video_comments after the comment-threads call answered r.
AfterComments(source, r) ==
    IF r.kind = "http" /\ IsCommentsDisabled(r.status)
    THEN [append |-> <<DisabledEntry(source.video_id)>>, raised |-> NoExc]
    ELSE IF r.kind # "ok"
    THEN [append |-> << >>, raised |-> Raised(r)]
    ELSE [append |-> <<CommentsBatch(source.video_id, r.items)>>, raised |-> NoExc]

\* One upstream call as the log keeps it: the source it was made for, what was asked
\* (maxResults, the ids of a details call, the page token) and what was answered
\* (the items of a search or details answer, the number of items, the cursor).
Call(api, limit, ids, token, r) ==
    [src |-> idx, api |-> api, maxResults |-> limit, ids |-> ids, pageToken |-> token,
     kind |-> r.kind, status |-> r.status, content |-> r.content,
     items |-> IF api = "commentThreads" THEN << >> ELSE r.items,
     n |-> Len(r.items), next |-> r.next]

\* -------------------------------------------------------------------- state
Init ==
    /\ config \in Configs
    /\ searchMemo = << >>
    /\ videosMemo = << >>
    /\ commentsMemo = << >>
    /\ pc = "request"
    /\ build_called = FALSE
    /\ results = << >>
    /\ origin = << >>
    /\ idx = 0
    /\ video_ids = << >>
    /\ calls = << >>
    /\ runs = 0
    /\ prev = << >>
    /\ response = NoResponse

Current == config.sources[idx]

AtSource == pc = "loop" /\ idx \in DOMAIN config.sources

\* The source at idx is finished with outcome h: its entries are appended and the
\* loop goes on, or its exception leaves fetch_data and the router answers.
Finish(h) ==
    /\ video_ids' = << >>
    /\ IF h.raised.type = "none"
       THEN /\ results' = results \o h.append
            /\ origin' = origin \o [i \in DOMAIN h.append |-> idx]
            /\ idx' = idx + 1
            /\ pc' = "loop"
            /\ response' = response
       ELSE /\ results' = results \o h.append
            /\ origin' = origin \o [i \in DOMAIN h.append |-> idx]
            /\ idx' = idx
            /\ pc' = "responded"
            /\ response' = IF runs = 1 THEN RouterError(h.raised) ELSE response

\* scraper = YoutubeScraper(request.platform_config)
NewScraper ==
    /\ pc = "request"
    /\ IF ~HasApiKey(config)
       THEN /\ pc' = "responded"
            /\ response' = RouterError(MissingKeyError)
            /\ build_called' = FALSE
       ELSE \E b \in BuildOutcomes :
            /\ build_called' = TRUE
            /\ IF b.type = "none"
               THEN pc' = "built" /\ response' = response
               ELSE pc' = "responded" /\ response' = RouterError(b)
    /\ UNCHANGED <<config, searchMemo, videosMemo, commentsMemo, results, origin,
                   idx, video_ids, calls, runs, prev>>

\* fetch_data, entered: self.results = [] and the start of the loop.
EnterFetchData ==
    /\ runs' = runs + 1
    /\ prev' = results
    /\ results' = ClearResults(results)
    /\ origin' = IF ClearResults(results) = << >> THEN << >> ELSE origin
    /\ calls' = << >>
    /\ idx' = 1
    /\ pc' = "loop"
    /\ UNCHANGED <<config, searchMemo, videosMemo, commentsMemo, build_called,
                   video_ids, response>>

\* data = scraper.fetch_data() of the endpoint.
FetchDataBegin ==
    /\ pc = "built"
    /\ EnterFetchData

\* fetch_data called once more on the same instance.
FetchDataAgain ==
    /\ pc = "returned"
    /\ runs < MaxRuns
    /\ EnterFetchData

\* A source that makes no call: an unsupported type, a missing query or video id.
SkipSource ==
    /\ AtSource
    /\ \/ Current.type \notin {"search_videos", "video_comments"}
       \/ Current.type = "search_videos" /\ Current.query = ""
       \/ Current.type = "video_comments" /\ Current.video_id = ""
    /\ idx' = idx + 1
    /\ UNCHANGED <<config, searchMemo, videosMemo, commentsMemo, pc, build_called,
                   results, origin, video_ids, calls, runs, prev, response>>

\* _fetch_videos_by_search up to and including the search call.
SearchCall ==
    /\ AtSource
    /\ Current.type = "search_videos"
    /\ Current.query # ""
    /\ LET req == SearchRequest(Current) IN
       \E r \in Upstream(searchMemo, req, SearchResponses) :
          /\ searchMemo' = Remember(searchMemo, req, r)
          /\ calls' = Append(calls, Call("search", req.maxResults, << >>, "", r))
          /\ LET out == AfterSearch(Current, r) IN
             IF out.raised.type = "none" /\ out.append = << >>
             THEN /\ pc' = "details"
                  /\ video_ids' = out.ids
                  /\ UNCHANGED <<results, origin, idx, response>>
             ELSE Finish(FetchDataHandle(Current, [append |-> out.append, raised |-> out.raised]))
    /\ UNCHANGED <<config, videosMemo, commentsMemo, build_called, runs, prev>>

\* _fetch_videos_by_search from the details call on.
VideosCall ==
    /\ pc = "details"
    /\ LET req == VideosRequest(video_ids) IN
       \E r \in Upstream(videosMemo, req, VideosResponses(req.id)) :
          /\ videosMemo' = Remember(videosMemo, req, r)
          /\ calls' = Append(calls, Call("videos", 0, req.id, "", r))
          /\ Finish(FetchDataHandle(Current, AfterVideos(Current, r)))
    /\ UNCHANGED <<config, searchMemo, commentsMemo, build_called, runs, prev>>

\* _fetch_video_comments
CommentsCall ==
    /\ AtSource
    /\ Current.type = "video_comments"
    /\ Current.video_id # ""
    /\ LET req == CommentsRequest(Current) IN
       \E r \in Upstream(commentsMemo, req, CommentsResponses) :
          /\ commentsMemo' = Remember(commentsMemo, req, r)
          /\ calls' = Append(calls, Call("commentThreads", req.maxResults, << >>, req.pageToken, r))
          /\ Finish(FetchDataHandle(Current, AfterComments(Current, r)))
    /\ UNCHANGED <<config, searchMemo, videosMemo, build_called, runs, prev>>

\* return self.results, and on the request's run the router's answer.
FetchDataReturn ==
    /\ pc = "loop"
    /\ idx = Len(config.sources) + 1
    /\ pc' = "returned"
    /\ response' = IF runs = 1 THEN RouterSuccess(results) ELSE response
    /\ UNCHANGED <<config, searchMemo, videosMemo, commentsMemo, build_called,
                   results, origin, idx, video_ids, calls, runs, prev>>

Next ==
    \/ NewScraper
    \/ FetchDataBegin
    \/ SkipSource
    \/ SearchCall
    \/ VideosCall
    \/ CommentsCall
    \/ FetchDataReturn

Spec == Init /\ [][Next]_vars

\* The same, with fetch_data run again on the scraper after it returned.
NextRerun ==
    \/ NewScraper
    \/ FetchDataBegin
    \/ FetchDataAgain
    \/ SkipSource
    \/ SearchCall
    \/ VideosCall
    \/ CommentsCall
    \/ FetchDataReturn

\* A scraper that was constructed with a key, for at most MaxRerunSources sources.
InitRerun ==
    /\ Init
    /\ config.has_key
    /\ Len(config.sources) <= MaxRerunSources

SpecRerun == InitRerun /\ [][NextRerun]_vars


\* ------------------------------------------------------------------- claims
\* The positions in self.results of the entries appended for source i.
EntriesOf(i) == { p \in DOMAIN origin : origin[p] = i }

\* The entry of source i, for a source that has exactly one.
Entry(i) == results[CHOOSE p \in EntriesOf(i) : TRUE]

OneEntry(i) == Cardinality(EntriesOf(i)) = 1

\* The calls of the current run made for source i to one endpoint.
CallsOf(i, api) == { k \in DOMAIN calls : calls[k].src = i /\ calls[k].api = api }

\* The fetch of the source of call k is over (a search call that found videos is
\* followed by the details call of the same source).
Settled(k) == ~(pc = "details" /\ idx = calls[k].src)

\* The comments-disabled case: an access denial answering a comment-threads call.
Disabled(c) == c.api = "commentThreads" /\ c.kind = "http" /\ c.status = 403

Answered == pc \in {"returned", "responded"}

\* key in entry
Has(e, key) == key \in DOMAIN e

\* C1: a request whose configuration lacks the API key is answered with a 4xx
\* validation error, the upstream client is never constructed and no upstream call
\* (search, videos, commentThreads) is made, whatever sources it lists.
C1_MissingKeyRejected ==
    (~config.has_key /\ pc # "request") =>
        /\ pc = "responded"
        /\ response.status = "error"
        /\ response.status_code \in 400..499
        /\ ~build_called
        /\ runs = 0
        /\ calls = << >>
        /\ searchMemo = << >> /\ videosMemo = << >> /\ commentsMemo = << >>

C1_Witness ==
    /\ ~config.has_key
    /\ pc = "responded"
    /\ \E i, j \in DOMAIN config.sources :
          /\ config.sources[i].type = "search_videos" /\ config.sources[i].query # ""
          /\ config.sources[j].type = "video_comments" /\ config.sources[j].video_id # ""

\* C2: when the comment-threads call of a video is answered with an access denial
\* (403), nothing is raised: the video gets one entry with zero comment records and
\* the note that comments are disabled, the loop goes on, and the request is
\* answered as a success carrying that entry.
C2_DisabledRecovered ==
    \A k \in DOMAIN calls :
        Disabled(calls[k]) =>
            /\ pc # "responded"
            /\ OneEntry(calls[k].src)
            /\ LET e == Entry(calls[k].src) IN
                  /\ e.signal_batch = << >>
                  /\ Has(e, "source_type") /\ e.source_type = "video_comments"
                  /\ Has(e, "error")
                  /\ e.video_id = config.sources[calls[k].src].video_id
                  /\ e.error.text = "Comments are disabled for this video."
            /\ (pc = "returned" =>
                  /\ response.status = "success"
                  /\ response.status_code = 200
                  /\ response.data = results)

C2_Witness ==
    /\ pc = "returned"
    /\ \E k \in DOMAIN calls : Disabled(calls[k])
    /\ response.status = "success"

\* C3 as stated: every upstream API error other than the comments-disabled case
\* leaves the scraper and is answered by the router as an error carrying the
\* upstream status code, never as a success.
C3_Original ==
    \A k \in DOMAIN calls :
        (calls[k].kind = "http" /\ ~Disabled(calls[k]) /\ Answered) =>
            /\ response.status = "error"
            /\ response.status_code = calls[k].status

\* C3 as amended: an upstream API error raised by a search, videos or
\* commentThreads call, other than the comments-disabled case, is caught by
\* fetch_data: the source gets one error entry carrying the upstream status code and
\* message with an empty batch, the loop goes on and the request is answered as a
\* success.  Only an error raised while the client is constructed reaches the
\* router, which answers with an error status.
C3_UpstreamErrorRecorded ==
    /\ \A k \in DOMAIN calls :
          (calls[k].kind = "http" /\ ~Disabled(calls[k])) =>
              /\ pc # "responded"
              /\ OneEntry(calls[k].src)
              /\ LET e == Entry(calls[k].src) IN
                    /\ Has(e, "error")
                    /\ e.error.status = calls[k].status
                    /\ e.error.content = calls[k].content
                    /\ e.signal_batch = << >>
              /\ (pc = "returned" => response.status = "success" /\ response.data = results)
    /\ (pc = "responded" /\ build_called) =>
          /\ runs = 0
          /\ response.status = "error"
          /\ response.status_code \in {404, 500}

C3_Witness ==
    /\ pc = "returned"
    /\ response.status = "success"
    /\ \E k \in DOMAIN calls : calls[k].api = "search" /\ calls[k].kind = "http" /\ calls[k].status = 403
    /\ \E k \in DOMAIN calls : calls[k].api = "commentThreads" /\ calls[k].kind = "http" /\ calls[k].status = 404


\* The limit N of source i: its max_results, or the default of its type.
Limit(i) ==
    LET source == config.sources[i]
    IN  IF source.has_max THEN source.max_results
        ELSE IF source.type = "search_videos" THEN DefaultSearchMax ELSE DefaultCommentsMax

\* entry.get("has_more"), falsy when the entry has no such key.
HasMore(e) == IF Has(e, "has_more") THEN e.has_more ELSE FALSE

\* The comment-threads calls that were answered with a page of comments.
PageCalls == { k \in DOMAIN calls : calls[k].api = "commentThreads" /\ calls[k].kind = "ok" }

ClaimedPageSize(remaining) == Min(100, remaining)

\* C5 as stated: a comment fetch with limit N asks the upstream for at most
\* min(100, remaining) items per call and stops only when N comments are collected
\* or the upstream reports no further page.
C5_Original ==
    \A k \in PageCalls :
        /\ calls[k].maxResults <= ClaimedPageSize(Limit(calls[k].src))
        /\ OneEntry(calls[k].src)
        /\ \/ Len(Entry(calls[k].src).signal_batch) = calls[k].maxResults
           \/ ~calls[k].next

\* C5 as amended: a comment fetch with limit N makes exactly one call to the
\* comment-threads endpoint, asking for N items in that one call even when N is
\* above 100, passes no page token and never follows the cursor: the fetch is over
\* after the first page, whether or not the upstream reports a further page and
\* whether or not N comments were collected.
C5_OneCallAsksLimit ==
    \A i \in DOMAIN config.sources :
        LET source == config.sources[i]
            mine == CallsOf(i, "commentThreads")
        IN  /\ Cardinality(mine) <= 1
            /\ (source.type = "video_comments" /\ source.video_id # "" /\ i < idx)
                  => Cardinality(mine) = 1
            /\ \A k \in mine :
                  /\ source.type = "video_comments"
                  /\ calls[k].maxResults = Limit(i)
                  /\ calls[k].pageToken = ""
                  /\ idx > i
                  /\ calls[k].kind = "ok" => Len(Entry(i).signal_batch) = calls[k].n

C5_Witness ==
    \E k \in PageCalls :
        /\ calls[k].maxResults = ScenarioLimit
        /\ calls[k].n = ScenarioPage
        /\ calls[k].next
        /\ pc = "returned"
        /\ Len(Entry(calls[k].src).signal_batch) = ScenarioPage


\* The video identifiers an upstream search answer holds, as a set of positions.
VideoPositions(items) == { i \in DOMAIN items : items[i].kind = "youtube#video" }

\* The search calls that were answered, and whose source is finished.
SearchAnswers ==
    { k \in DOMAIN calls : calls[k].api = "search" /\ calls[k].kind = "ok" /\ Settled(k) }

\* C6: whenever the upstream search answer yields zero video identifiers, the
\* search source gets an entry with an empty video list and no error, and no
\* video-details call is ever issued for it.
C6_NoIdsNoDetailsCall ==
    \A k \in SearchAnswers :
        VideoPositions(calls[k].items) = {} =>
            /\ CallsOf(calls[k].src, "videos") = {}
            /\ OneEntry(calls[k].src)
            /\ LET e == Entry(calls[k].src) IN
                  /\ e.signal_batch = << >>
                  /\ ~Has(e, "error")
                  /\ e.source_name = config.sources[calls[k].src].query

C6_Witness ==
    /\ pc = "returned"
    /\ \E k \in SearchAnswers :
          /\ calls[k].n > 0
          /\ VideoPositions(calls[k].items) = {}
          /\ Entry(calls[k].src).signal_batch = << >>

\* The identifiers of the video items of a search answer, in order.
RECURSIVE FoundIds(_)
FoundIds(items) ==
    IF items = << >> THEN << >>
    ELSE IF Head(items).kind = "youtube#video"
    THEN <<Head(items).videoId>> \o FoundIds(Tail(items))
    ELSE FoundIds(Tail(items))

\* The search answers that held at least one video identifier.
SearchHits == { k \in SearchAnswers : VideoPositions(calls[k].items) # {} }

DigitChars == <<"0", "1", "2", "3", "4", "5", "6", "7", "8", "9">>

IsDigit(c) == \E v \in DOMAIN DigitChars : DigitChars[v] = c

DigitValue(c) == (CHOOSE v \in DOMAIN DigitChars : DigitChars[v] = c) - 1

\* The number a non-empty sequence of digits writes.
RECURSIVE NumberOf(_)
NumberOf(ds) ==
    IF ds = << >> THEN 0
    ELSE 10 * NumberOf(SubSeq(ds, 1, Len(ds) - 1)) + DigitValue(ds[Len(ds)])

AllDigits(ds) == ds # << >> /\ \A i \in DOMAIN ds : IsDigit(ds[i])

\* The position of the M of PT{m}M{s}S in d, 0 when d has not that shape.
MinutesMark(d) ==
    IF /\ Len(d) >= 6
       /\ d[1] = "P" /\ d[2] = "T" /\ d[Len(d)] = "S"
       /\ \E p \in 4..(Len(d) - 2) :
             /\ d[p] = "M"
             /\ AllDigits(SubSeq(d, 3, p - 1))
             /\ AllDigits(SubSeq(d, p + 1, Len(d) - 1))
    THEN CHOOSE p \in 4..(Len(d) - 2) :
             /\ d[p] = "M"
             /\ AllDigits(SubSeq(d, 3, p - 1))
             /\ AllDigits(SubSeq(d, p + 1, Len(d) - 1))
    ELSE 0

\* n written with at least two digits.
RECURSIVE Decimal(_)
Decimal(n) == IF n < 10 THEN <<DigitChars[n + 1]>> ELSE Decimal(n \div 10) \o <<DigitChars[(n % 10) + 1]>>

TwoDigits(n) == IF n < 10 THEN <<"0">> \o Decimal(n) ELSE Decimal(n)

ClaimedDuration(d) ==
    LET p == MinutesMark(d)
    IN  IF p = 0 THEN <<"0", "0", ":", "0", "0">>
        ELSE LET total == 60 * NumberOf(SubSeq(d, 3, p - 1)) + NumberOf(SubSeq(d, p + 1, Len(d) - 1))
             IN  TwoDigits(total \div 60) \o <<":">> \o TwoDigits(total % 60)

\* The details calls that were answered with items.
DetailAnswers == { k \in DOMAIN calls : calls[k].api = "videos" /\ calls[k].kind = "ok" }

\* C8 as stated: the duration of every returned video record is the upstream
\* ISO-8601 duration PT{m}M{s}S rendered as zero-padded "MM:SS", and "00:00" when
\* the upstream duration is malformed or absent.
C8_Original ==
    \A k \in DetailAnswers :
        /\ OneEntry(calls[k].src)
        /\ \A j \in DOMAIN calls[k].items :
              Entry(calls[k].src).signal_batch[j].duration = ClaimedDuration(calls[k].items[j].duration)

\* C8 as amended: the duration of every returned video record is the upstream
\* contentDetails.duration exactly as the upstream sent it (the ISO-8601 text
\* PT{m}M{s}S, or whatever malformed text was sent), never rendered as "MM:SS",
\* and is None, not "00:00", when the upstream sent no duration.
C8_DurationPassedThrough ==
    \A k \in DetailAnswers :
        /\ OneEntry(calls[k].src)
        /\ Len(Entry(calls[k].src).signal_batch) = Len(calls[k].items)
        /\ \A j \in DOMAIN calls[k].items :
              LET sent == calls[k].items[j].duration
                  got == Entry(calls[k].src).signal_batch[j].duration
              IN  /\ got = sent
                  /\ got # ClaimedDuration(sent)

C8_Witness ==
    /\ pc = "returned"
    /\ \E k \in DetailAnswers :
          /\ Len(calls[k].items) = 2
          /\ calls[k].items[1].duration = Iso4m13s
          /\ calls[k].items[2].duration = None
          /\ Entry(calls[k].src).signal_batch[1].duration = Iso4m13s
          /\ Entry(calls[k].src).signal_batch[2].duration = None
          /\ ClaimedDuration(Iso4m13s) = <<"0", "4", ":", "1", "3">>


\* C9: with the upstream unchanged, running fetch_data again on the same scraper
\* returns the same sequence of entries, in order and content, as the run before:
\* the records of the earlier run are not accumulated.
C9_RerunSameResults ==
    (pc = "returned" /\ runs >= 2) =>
        /\ Len(results) = Len(prev)
        /\ results = prev
        /\ Len(results) <= Len(config.sources)

C9_Witness ==
    /\ pc = "returned"
    /\ runs = 2
    /\ Len(results) = 1
    /\ results = prev
    /\ \E p \in DOMAIN results :
          /\ Has(results[p], "source_type")
          /\ results[p].source_type = "search_videos"
          /\ Len(results[p].signal_batch) = 2

\* The sources that make an upstream call: a search with a query, a comment fetch
\* with a video id.
Fetches(i) ==
    LET source == config.sources[i]
    IN  \/ source.type = "search_videos" /\ source.query # ""
        \/ source.type = "video_comments" /\ source.video_id # ""

\* C10: when an upstream call made for a source fails, no further upstream call is
\* made for that source, exactly one entry, with an error and an empty batch, is
\* recorded for it, every later source is still processed, and the entries of the
\* result are in the order of their sources with at most one entry per source.
C10_FailureIsolated ==
    /\ \A k \in DOMAIN calls :
          calls[k].kind # "ok" =>
              /\ \A j \in DOMAIN calls : j > k => calls[j].src > calls[k].src
              /\ OneEntry(calls[k].src)
              /\ Has(Entry(calls[k].src), "error")
              /\ Entry(calls[k].src).signal_batch = << >>
              /\ pc # "responded"
              /\ idx > calls[k].src
    /\ Len(origin) = Len(results)
    /\ \A p, q \in DOMAIN origin : p < q => origin[p] < origin[q]
    /\ pc = "returned" =>
          /\ \A i \in DOMAIN config.sources : Fetches(i) <=> OneEntry(i)
          /\ response.status = "success"
          /\ response.data = results

C10_Witness ==
    /\ pc = "returned"
    /\ Len(config.sources) = 2
    /\ \E k \in DOMAIN calls : calls[k].src = 1 /\ calls[k].api = "videos" /\ calls[k].kind = "exc"
    /\ \E k \in DOMAIN calls : calls[k].src = 2 /\ calls[k].kind = "ok"
    /\ Has(results[1], "error")
    /\ ~Has(results[2], "error")

====
